---- MODULE Spec2Model ----
(***************************************************************************)
(* Background-task lifecycle controller of docling_gui.py.                *)
(*                                                                         *)
(* Three execution contexts are modelled:                                  *)
(*   - the interactive (main) thread: one Qt event loop that runs one     *)
(*     handler at a time, fed by mainQ (signals queued from the worker     *)
(*     threads), timerQ (QTimer.singleShot(0, ...) callbacks created on    *)
(*     the main thread) and user events;                                   *)
(*   - the initialization thread (InitializationWorker.run);               *)
(*   - the conversion threads (ConversionWorker.run), one per accepted     *)
(*     request.                                                            *)
(* A worker's run() is called directly by QThread.started, before the      *)
(* thread's event loop is entered; the QTimer.singleShot(0, emit) calls it *)
(* makes fire only once that loop runs, and never if quit() was called     *)
(* before the loop was entered.                                            *)
(* The progress_update signal only changes the label of the progress      *)
(* dialog and is not modelled.                                             *)
(***************************************************************************)
EXTENDS Integers, Sequences, FiniteSets, TLC

\* ------------------------------------------------------------------ bounds
\* number of conversion requests the user gets accepted in one run
MaxConversions == 2
\* number of deferred callbacks that may be pending when the user makes a request
MaxTimers == 2
\* number of direct invocations of start_initialization_thread (SpecInitApi)
MaxInitCalls == 1
\* number of direct invocations of the two completion slots (SpecSignals)
MaxInjected == 1
\* length of the texts the output shows when the user saves (SpecSave)
MaxTextLen == 2
\* number of status timers that may be pending when the user saves (SpecSave)
MaxSaves == 2
\* number of blocks load() returns (SpecDisplay)
MaxBlocks == 3

\* ------------------------------------------------------------ file system
\* two files that exist and can be read; the name of the second contains one
\* of the words _finalize_conversion_ui looks for in the status text
ValidPaths == {"a.pdf", "Converting.pdf"}
Paths == ValidPaths \cup {"missing.pdf", "locked.pdf"}
\* process_file without its os.path.exists test
PathExistsUnchecked(p) == TRUE
PathExists(p) == p # "missing.pdf"
PathReadable(p) == p # "locked.pdf"

\* -------------------------------------------------------------- text, docs
\* a text is a sequence of characters; NL is the newline character
NL == "\n"
Block(t) == [present |-> TRUE, text |-> t]
MissingBlock == [present |-> FALSE, text |-> <<>>]
Docs(bs) == [none |-> FALSE, blocks |-> bs]
NoDocs == [none |-> TRUE, blocks |-> <<>>]
\* what loader.load() may return
LoadResults ==
    { NoDocs,
      Docs(<<>>),
      Docs(<<Block(<<>>), MissingBlock>>),
      Docs(<<Block(<<"x">>), Block(<<>>), Block(<<"y">>)>>),
      Docs(<<Block(<<" ">>)>>) }

\* `if docs:`
DocsTruthy(d) == ~d.none /\ Len(d.blocks) > 0
\* [doc.page_content for doc in docs if hasattr(doc, 'page_content') and doc.page_content]
RECURSIVE PageContents(_)
PageContents(bs) ==
    IF bs = <<>> THEN <<>>
    ELSE IF Head(bs).present /\ Head(bs).text # <<>>
         THEN <<Head(bs).text>> \o PageContents(Tail(bs))
         ELSE PageContents(Tail(bs))
\* "\n\n".join(page_contents)
RECURSIVE JoinBlocks(_)
JoinBlocks(ts) ==
    IF ts = <<>> THEN <<>>
    ELSE IF Len(ts) = 1 THEN Head(ts)
    ELSE Head(ts) \o <<NL, NL>> \o JoinBlocks(Tail(ts))
IsSpace(c) == c \in {" ", NL}
\* bool(text.strip())
HasText(t) == \E i \in 1..Len(t) : ~IsSpace(t[i])

\* QTextEdit.setText guesses the format of its argument: Qt::mightBeRichText
\* skips the leading white space and looks for a tag Qt knows before the
\* first line break ("<b>" stands for such a tag, as one character)
RECURSIVE mightBeRichText(_, _)
mightBeRichText(t, leading) ==
    IF t = <<>> THEN FALSE
    ELSE IF leading /\ IsSpace(Head(t)) THEN mightBeRichText(Tail(t), TRUE)
    ELSE IF Head(t) = NL THEN FALSE
    ELSE Head(t) = "<b>" \/ mightBeRichText(Tail(t), FALSE)
\* the text shown for an HTML document: the tags are markup, a run of white
\* space (line breaks included) is one space, leading white space is dropped
RECURSIVE toPlainTextOfHtml(_, _)
toPlainTextOfHtml(t, afterSpace) ==
    IF t = <<>> THEN <<>>
    ELSE IF Head(t) = "<b>" THEN toPlainTextOfHtml(Tail(t), afterSpace)
    ELSE IF IsSpace(Head(t))
    THEN (IF afterSpace THEN <<>> ELSE <<" ">>) \o toPlainTextOfHtml(Tail(t), TRUE)
    ELSE <<Head(t)>> \o toPlainTextOfHtml(Tail(t), FALSE)
\* markdown_output.setText(full_markdown): the text the widget then shows
setText(t) ==
    IF mightBeRichText(t, TRUE) THEN toPlainTextOfHtml(t, TRUE) ELSE t

\* ------------------------------------------------------------- saved files
\* the characters of the texts that are saved: a letter, a blank, a newline
\* and one character outside ASCII
Chars == {"x", " ", NL, "e-acute"}
RECURSIVE TextsOfLen(_)
TextsOfLen(n) ==
    IF n = 0 THEN {<<>>}
    ELSE {Append(u, c) : u \in TextsOfLen(n - 1), c \in Chars}
Texts == UNION {TextsOfLen(n) : n \in 0..MaxTextLen}
\* the bytes of one character in UTF-8
Utf8(c) ==
    CASE c = "x" -> <<120>>
      [] c = " " -> <<32>>
      [] c = NL -> <<10>>
      [] c = "\r" -> <<13>>
      [] c = "e-acute" -> <<195, 169>>
\* str.encode("utf-8")
RECURSIVE Encode(_)
Encode(t) == IF t = <<>> THEN <<>> ELSE Utf8(Head(t)) \o Encode(Tail(t))
\* bytes.decode("utf-8")
RECURSIVE Decode(_)
Decode(b) ==
    IF b = <<>> THEN <<>>
    ELSE IF Head(b) = 195 THEN <<"e-acute">> \o Decode(Tail(Tail(b)))
    ELSE <<CHOOSE c \in Chars \cup {"\r"} : Utf8(c) = <<Head(b)>> >> \o Decode(Tail(b))
\* os.linesep on platform pf
LineSep(pf) == IF pf = "windows" THEN <<"\r", NL>> ELSE <<NL>>
\* a file opened with open(path, 'w', encoding='utf-8'), newline not given:
\* write() replaces every "\n" by os.linesep before it encodes
RECURSIVE TranslateNewlines(_, _)
TranslateNewlines(t, pf) ==
    IF t = <<>> THEN <<>>
    ELSE (IF Head(t) = NL THEN LineSep(pf) ELSE <<Head(t)>>)
             \o TranslateNewlines(Tail(t), pf)
\* no file written yet; a file name is its stem and the extensions after it
NoFile == [name |-> [stem |-> "", exts |-> <<>>], bytes |-> <<>>, exists |-> FALSE]
\* what QFileDialog.getSaveFileName may return: the empty name when dismissed
SaveNames ==
    { [stem |-> "", exts |-> <<>>], [stem |-> "out", exts |-> <<>>],
      [stem |-> "out", exts |-> <<"md">>], [stem |-> "notes", exts |-> <<"txt">>] }
SaveFilters == {"Markdown Files (*.md)", "Text Files (*.txt)", "All Files (*)"}
\* lines 930-937: the extension added to the chosen path
SavePath(file_path, selected_filter) ==
    LET last == IF file_path.exts = <<>> THEN "" ELSE file_path.exts[Len(file_path.exts)]
    IN  IF selected_filter = "Markdown Files (*.md)" /\ last \notin {"md", "markdown"}
        THEN [file_path EXCEPT !.exts = Append(@, "md")]
        ELSE IF selected_filter = "Text Files (*.txt)" /\ last # "txt"
        THEN [file_path EXCEPT !.exts = Append(@, "txt")]
        ELSE IF file_path.exts = <<>>
        THEN [file_path EXCEPT !.exts = Append(@, "md")]
        ELSE file_path

\* --------------------------------------------------------------- exceptions
\* an exception the external library may raise: its class name, the first
\* class among those the except clauses name that it is an instance of, and
\* whether its message contains the word "cancelled"
Exc(n, b, c) == [name |-> n, base |-> b, cancelledMsg |-> c]
NoExc == Exc("none", "none", FALSE)
ExternalExceptions ==
    { Exc("RuntimeError", "RuntimeError", FALSE),
      Exc("RuntimeError", "RuntimeError", TRUE),
      Exc("OSError", "OSError", FALSE),
      Exc("PermissionError", "OSError", FALSE),
      Exc("ImportError", "ImportError", FALSE),
      Exc("ModuleNotFoundError", "ImportError", FALSE),
      Exc("ValueError", "Exception", FALSE) }
\* what the import of langchain_docling may do
ImportOutcomes ==
    { NoExc,
      Exc("ImportError", "ImportError", FALSE),
      Exc("ModuleNotFoundError", "ImportError", FALSE),
      Exc("ValueError", "Exception", FALSE) }

\* ------------------------------------------------------------------ status
St(k, a) == [k |-> k, a |-> a]
StInitializing == St("Initializing", "")
ready_status_text == St("Ready", "")
StPreparing(p) == St("Preparing", p)
StSuccess(p) == St("Success", p)
StCancelled == St("Cancelled", "")
StInitFailed == St("InitializationFailed", "")
\* "Preparing" / "Initializing" / "Converting" in os.path.basename(p)
NameHasProcessingWord(p) == p = "Converting.pdf"
\* _finalize_conversion_ui: the label "shows a processing state"; the success
\* text quotes the file's base name
ShowsProcessing(s) ==
    \/ s.k \in {"Preparing", "Initializing"}
    \/ s.k = "Success" /\ NameHasProcessingWord(s.a)

\* ----------------------------------------------------------------- signals
Msg(s, w, e, d, p) == [sig |-> s, w |-> w, etype |-> e, docs |-> d, path |-> p]
CompleteMsg(w, d, p) == Msg("conversion_complete", w, "", d, p)
ErrorMsg(w, e, p) == Msg("conversion_error", w, e, NoDocs, p)
FinishedMsg(w) == Msg("finished", w, "", NoDocs, "")
InitCompleteMsg == Msg("initialization_complete", 0, "", NoDocs, "")
InitErrorMsg(e) == Msg("initialization_error", 0, e, NoDocs, "")
InitFinishedMsg == Msg("init_finished", 0, "", NoDocs, "")

VARIABLES
    \* MarkdownConverterApp attributes
    DoclingLoaderClass, is_processing, last_processed_file,
    init_thread, init_worker, conversion_thread, conversion_worker,
    progress_dialog, markdown_output, status_label, original_status_text,
    open_enabled, copy_enabled, central_enabled, ui_shown,
    \* the interactive context
    notice, closed, frames, mainQ, timerQ, initTimer,
    \* the 3000 ms timers of temporary status messages, the file written by
    \* save_markdown_to_file, the platform the program runs on
    tempQ, saved_file, platform,
    \* the background contexts
    initw, workers,
    \* history
    req, initCalls, injected

appVars == <<DoclingLoaderClass, is_processing, last_processed_file,
             init_thread, init_worker, conversion_thread, conversion_worker,
             progress_dialog, markdown_output, status_label, original_status_text,
             open_enabled, copy_enabled, central_enabled, ui_shown,
             tempQ, saved_file, platform>>
loopVars == <<notice, closed, frames, mainQ, timerQ, initTimer>>
bgVars == <<initw, workers>>
histVars == <<req, initCalls, injected>>
vars == <<appVars, loopVars, bgVars, histVars>>

WorkerIds == 1..MaxConversions
NoWorker ==
    [pc |-> "none", running |-> TRUE, path |-> "", pend |-> <<>>, exited |-> FALSE,
     res |-> NoDocs, stopAt |-> "never", raised |-> FALSE,
     emitted |-> <<>>, handled |-> 0]

Init ==
    /\ DoclingLoaderClass = "None"
    /\ is_processing = FALSE
    /\ last_processed_file = "None"
    /\ init_thread = 0 /\ init_worker = 0
    /\ conversion_thread = 0 /\ conversion_worker = 0
    /\ progress_dialog = "None"
    /\ markdown_output = <<>>
    /\ status_label = StInitializing
    /\ original_status_text = StInitializing
    /\ open_enabled = TRUE /\ copy_enabled = FALSE
    /\ central_enabled = TRUE /\ ui_shown = FALSE
    /\ notice = "none" /\ closed = FALSE /\ frames = <<>>
    /\ mainQ = <<>> /\ timerQ = <<>> /\ initTimer = TRUE
    /\ initw = [pc |-> "none", exited |-> FALSE, pend |-> <<>>, made |-> 0,
                emitted |-> 0, outcome |-> NoExc]
    /\ workers = [w \in WorkerIds |-> NoWorker]
    /\ req = [n |-> 0, cancelAt |-> "none", applied |-> <<>>]
    /\ initCalls = 0 /\ injected = 0
    /\ tempQ = <<>> /\ saved_file = NoFile /\ platform = "unknown"

\* ------------------------------------------------- the interactive context
\* The state a handler of the main thread reads and writes, as one record, so
\* that a handler is the composition of the calls it makes, in program order.
Cur ==
    [DoclingLoaderClass |-> DoclingLoaderClass, is_processing |-> is_processing,
     last_processed_file |-> last_processed_file,
     init_thread |-> init_thread, init_worker |-> init_worker,
     conversion_thread |-> conversion_thread, conversion_worker |-> conversion_worker,
     progress_dialog |-> progress_dialog, markdown_output |-> markdown_output,
     status_label |-> status_label, original_status_text |-> original_status_text,
     open_enabled |-> open_enabled, copy_enabled |-> copy_enabled,
     central_enabled |-> central_enabled, ui_shown |-> ui_shown,
     notice |-> notice, closed |-> closed, frames |-> frames, timerQ |-> timerQ,
     tempQ |-> tempQ, saved_file |-> saved_file, platform |-> platform,
     initw |-> initw, workers |-> workers]

Commit(s) ==
    /\ DoclingLoaderClass' = s.DoclingLoaderClass
    /\ is_processing' = s.is_processing
    /\ last_processed_file' = s.last_processed_file
    /\ init_thread' = s.init_thread /\ init_worker' = s.init_worker
    /\ conversion_thread' = s.conversion_thread
    /\ conversion_worker' = s.conversion_worker
    /\ progress_dialog' = s.progress_dialog
    /\ markdown_output' = s.markdown_output
    /\ status_label' = s.status_label
    /\ original_status_text' = s.original_status_text
    /\ open_enabled' = s.open_enabled /\ copy_enabled' = s.copy_enabled
    /\ central_enabled' = s.central_enabled /\ ui_shown' = s.ui_shown
    /\ notice' = s.notice /\ closed' = s.closed /\ frames' = s.frames
    /\ timerQ' = s.timerQ
    /\ tempQ' = s.tempQ /\ saved_file' = s.saved_file /\ platform' = s.platform
    /\ initw' = s.initw /\ workers' = s.workers

\* set_status: "Ready", "Cancelled" or "failed" in the message
IsFinalText(m) == m.k \in {"Ready", "Cancelled", "Failed", "InitializationFailed"}

set_status(s, message, is_success, is_proc) ==
    [s EXCEPT !.original_status_text =
                  IF ~is_proc /\ (is_success \/ IsFinalText(message)) THEN message ELSE @,
              !.status_label = message]

\* set_status(message, temporary=True): the baseline is kept, and a 3000 ms
\* timer is started that remembers the message and the baseline
set_status_temporary(s, message) ==
    [s EXCEPT !.status_label = message,
              !.tempQ = Append(@, [message |-> message,
                                   baseline |-> s.original_status_text])]

\* a reset_status that also clears the output
reset_status_clears_output(s, base_message) ==
    [s EXCEPT !.original_status_text = base_message,
              !.timerQ = Append(@, "set_status"),
              !.markdown_output = <<>>, !.copy_enabled = FALSE]

\* reset_status(base_message): the label itself changes in a deferred callback
reset_status(s, base_message) ==
    [s EXCEPT !.original_status_text = base_message,
              !.timerQ = Append(@, "set_status")]

\* reset_status(): no message given
reset_status_default(s) ==
    reset_status(s, IF s.DoclingLoaderClass # "None" THEN ready_status_text
                    ELSE StInitializing)

\* show_error that only prints to the console
show_error_suppressed(s, kind) == s

\* show_error: the message box is shown only while the window is enabled
show_error(s, kind) ==
    IF s.central_enabled THEN [s EXCEPT !.notice = kind] ELSE s

\* can_interact without `not self.is_processing`
CanInteractWhileProcessing(s) ==
    HasText(s.markdown_output) /\ s.DoclingLoaderClass # "None"

CanInteract(s) ==
    HasText(s.markdown_output) /\ ~s.is_processing /\ s.DoclingLoaderClass # "None"

update_action_buttons_state(s) == [s EXCEPT !.copy_enabled = CanInteract(s)]

\* markdown_output.setText / clear: textChanged runs update_action_buttons_state
set_output(s, t) == update_action_buttons_state([s EXCEPT !.markdown_output = t])

\* a set_ui_enabled that leaves the open button and the drop area alone
set_ui_enabled_ignored(s, enabled) == s

set_ui_enabled(s, enabled) == [s EXCEPT !.open_enabled = enabled]

\* QThread.isRunning()
InitRunning(s) == s.initw.pc \notin {"none", "finished"}
ThreadRunning(s, t) == s.workers[t].pc \notin {"none", "finished", "deleted"}
\* QThread.quit()
quit(s, t) == [s EXCEPT !.workers[t].exited = TRUE]
\* history: where run() is when the flag is cleared for the first time: "pre",
\* the last checkpoint (line 135) is still ahead; "post", it is behind
BeforeLoadPcs == {"start", "init", "ctor", "preload"}
BeforeOutcomePcs == BeforeLoadPcs \cup {"loading", "postload"}
StopPhase(pc) == IF pc \in BeforeOutcomePcs THEN "pre" ELSE "post"
\* a stop() that also tells the worker's thread to quit
stop_quits_thread(s, w) ==
    [s EXCEPT !.workers[w].running = FALSE, !.workers[w].exited = TRUE,
              !.workers[w].stopAt = IF @ = "never" THEN StopPhase(s.workers[w].pc) ELSE @]
\* a stop() that leaves the flag as it is
stop_ignored(s, w) == s
\* ConversionWorker.stop
stop(s, w) ==
    [s EXCEPT !.workers[w].running = FALSE,
              !.workers[w].stopAt = IF @ = "never" THEN StopPhase(s.workers[w].pc) ELSE @]

\* deleteLater(): the worker and its thread object are destroyed
DeletedWorker == [NoWorker EXCEPT !.pc = "deleted"]
deleteLater(s, w) == [s EXCEPT !.workers[w] = DeletedWorker]

\* ---------------------------------------------------------- initialization
start_initialization_thread(s) ==
    IF s.init_thread # 0 THEN s
    ELSE [s EXCEPT !.init_thread = s.initw.made + 1,
                   !.init_worker = s.initw.made + 1,
                   !.initw = [pc |-> "importing", exited |-> FALSE, pend |-> <<>>,
                              made |-> s.initw.made + 1, emitted |-> 0,
                              outcome |-> NoExc]]

show_main_ui(s) ==
    LET s1 == [s EXCEPT !.ui_shown = TRUE,
                        !.original_status_text = ready_status_text]
        s2 == set_status(s1, s1.original_status_text, FALSE, FALSE)
    IN  [s2 EXCEPT !.central_enabled = TRUE]

handle_initialization_complete(s) ==
    show_main_ui([s EXCEPT !.DoclingLoaderClass = "DL_Class"])

\* show_initialization_error without central_widget.setEnabled(False)
show_initialization_error_enabled(s, hint) ==
    LET s1 == set_status(s, StInitFailed, FALSE, FALSE)
    IN  [s1 EXCEPT !.notice = IF hint THEN "InitErrorInstallHint"
                               ELSE "InitErrorSeeConsole"]

show_initialization_error(s, hint) ==
    LET s1 == set_status(s, StInitFailed, FALSE, FALSE)
    IN  [s1 EXCEPT !.notice = IF hint THEN "InitErrorInstallHint"
                               ELSE "InitErrorSeeConsole",
                   !.central_enabled = FALSE]

\* handle_initialization_error showing the main UI after the error message
handle_initialization_error_shows_ui(s, error_type) ==
    show_main_ui(show_initialization_error(s, error_type = "ImportError"))

handle_initialization_error(s, error_type) ==
    show_initialization_error(s, error_type = "ImportError")

\* _clear_init_thread_references that also drops the imported class
clear_init_thread_references_and_class(s) ==
    [s EXCEPT !.init_worker = 0, !.init_thread = 0, !.DoclingLoaderClass = "None"]

clear_init_thread_references(s) ==
    [s EXCEPT !.init_worker = 0, !.init_thread = 0]

\* -------------------------------------------------------------- conversion
\* a cancel_conversion that ends the request itself
cancel_conversion_ends_request(s) ==
    [s EXCEPT !.is_processing = FALSE, !.open_enabled = TRUE]

\* a cancel_conversion that applies the cancellation itself
cancel_conversion_applies(s) ==
    reset_status(set_output(s, <<>>), StCancelled)

\* cancel_conversion: the slot of the progress dialog's canceled signal
cancel_conversion(s) ==
    IF s.conversion_worker # 0 /\ s.is_processing
    THEN LET s1 == stop(s, s.conversion_worker)
         IN  IF s1.progress_dialog # "None"
             THEN [s1 EXCEPT !.progress_dialog = "hidden"]
             ELSE s1
    ELSE s

\* QProgressDialog.close(): its closeEvent emits canceled, the dialog hides
close_progress_dialog(s) ==
    LET s1 == cancel_conversion(s)
    IN  [s1 EXCEPT !.progress_dialog = "hidden"]

\* process_file without its DoclingLoaderClass pre-check
NotInitializedUnchecked(s) == FALSE
\* process_file without its is_processing pre-check
AlreadyProcessingUnchecked(s) == FALSE

\* the pre-checks of process_file
NotInitialized(s) == s.DoclingLoaderClass = "None"
AlreadyProcessing(s) == s.is_processing

\* a process_file that leaves the previous output in place
process_file_keeps_output(s, file_path) ==
    IF NotInitialized(s) THEN show_error(s, "NotInitialized")
    ELSE IF AlreadyProcessing(s) THEN show_error(s, "PleaseWait")
    ELSE IF ~PathExists(file_path)
    THEN reset_status(show_error(s, "FileNotFound"), St("FileAccessError", ""))
    ELSE IF ~PathReadable(file_path)
    THEN reset_status(show_error(s, "PermissionDenied"), St("FilePermissionError", ""))
    ELSE
    LET s1 == [s EXCEPT !.is_processing = TRUE, !.last_processed_file = file_path]
        s2 == set_status(s1, StPreparing(file_path), FALSE, TRUE)
        s4 == set_ui_enabled(update_action_buttons_state(s2), FALSE)
        s5 == IF s4.progress_dialog # "None"
              THEN [close_progress_dialog(s4) EXCEPT !.progress_dialog = "None"]
              ELSE s4
    IN  [s5 EXCEPT !.progress_dialog = "shown",
                   !.frames = Append(@, file_path)]

\* process_file up to QApplication.processEvents(): the pre-checks, the
\* processing state, the progress dialog
process_file(s, file_path) ==
    IF NotInitialized(s) THEN show_error(s, "NotInitialized")
    ELSE IF AlreadyProcessing(s) THEN show_error(s, "PleaseWait")
    ELSE IF ~PathExists(file_path)
    THEN reset_status(show_error(s, "FileNotFound"), St("FileAccessError", ""))
    ELSE IF ~PathReadable(file_path)
    THEN reset_status(show_error(s, "PermissionDenied"), St("FilePermissionError", ""))
    ELSE
    LET s1 == [s EXCEPT !.is_processing = TRUE, !.last_processed_file = file_path]
        s2 == set_status(s1, StPreparing(file_path), FALSE, TRUE)
        s3 == update_action_buttons_state(set_output(s2, <<>>))
        s4 == set_ui_enabled(s3, FALSE)
        s5 == IF s4.progress_dialog # "None"
              THEN [close_progress_dialog(s4) EXCEPT !.progress_dialog = "None"]
              ELSE s4
    IN  [s5 EXCEPT !.progress_dialog = "shown",
                   !.frames = Append(@, file_path)]

\* the number of ConversionWorker objects created so far
Created(s) == Cardinality({w \in WorkerIds : s.workers[w].pc # "none"})

NewWorker(file_path) ==
    [NoWorker EXCEPT !.pc = "start", !.path = file_path]

\* process_file after processEvents() has returned: the thread and the worker
process_file_start_thread(s) ==
    LET file_path == s.frames[Len(s.frames)]
        s1 == [s EXCEPT !.frames = SubSeq(@, 1, Len(@) - 1)]
        s2 == IF s1.conversion_thread # 0
              THEN [(IF ThreadRunning(s1, s1.conversion_thread)
                     THEN quit(s1, s1.conversion_thread) ELSE s1)
                    EXCEPT !.conversion_thread = 0, !.conversion_worker = 0]
              ELSE s1
        id == Created(s2) + 1
    IN  [s2 EXCEPT !.conversion_thread = id, !.conversion_worker = id,
                   !.workers[id] = NewWorker(file_path)]

\* the state check of the two completion handlers
SignalIsCurrent(s, original_file_path) ==
    ~(original_file_path # s.last_processed_file \/ ~s.is_processing)

\* the completion handlers without their conversion_thread.quit()
quit_conversion_thread_omitted(s) == s

\* "Explicitly tell the thread to quit"
quit_conversion_thread(s) ==
    IF s.conversion_thread # 0 THEN quit(s, s.conversion_thread) ELSE s

\* handle_conversion_complete without its `if docs:` / `if page_contents:` tests
handle_conversion_complete_untested(s, docs, original_file_path) ==
    IF ~SignalIsCurrent(s, original_file_path) THEN quit_conversion_thread(s)
    ELSE quit_conversion_thread(
             set_status(set_output(s, setText(JoinBlocks(PageContents(docs.blocks)))),
                        StSuccess(original_file_path), TRUE, FALSE))

handle_conversion_complete(s, docs, original_file_path) ==
    IF ~SignalIsCurrent(s, original_file_path) THEN quit_conversion_thread(s)
    ELSE
    LET page_contents == PageContents(docs.blocks)
        s1 == IF DocsTruthy(docs)
              THEN IF page_contents # <<>>
                   THEN set_status(set_output(s, setText(JoinBlocks(page_contents))),
                                   StSuccess(original_file_path), TRUE, FALSE)
                   ELSE reset_status(show_error(s, "EmptyContent"),
                                     St("Failed", "Empty result"))
              ELSE reset_status(show_error(s, "NoDocuments"),
                                St("Failed", "No documents"))
    IN  quit_conversion_thread(s1)

\* the status text and the notification chosen for an error type
ErrorStatus(error_type) ==
    IF error_type = "Cancelled" THEN StCancelled
    ELSE IF error_type = "OSError" THEN St("Failed", "OS Error")
    ELSE IF error_type = "ImportError" THEN St("Failed", "Missing Dependency")
    ELSE St("Failed", error_type)
ErrorNotice(error_type) ==
    IF error_type = "OSError" THEN "OSFailure"
    ELSE IF error_type = "ImportError" THEN "MissingDependency"
    ELSE "Unexpected"

handle_conversion_error(s, error_type, original_file_path) ==
    IF ~SignalIsCurrent(s, original_file_path) THEN quit_conversion_thread(s)
    ELSE
    LET s1 == set_output(s, <<>>)
        s2 == IF error_type # "Cancelled"
              THEN show_error(s1, ErrorNotice(error_type)) ELSE s1
        s3 == reset_status(s2, ErrorStatus(error_type))
    IN  quit_conversion_thread(s3)

\* a handle_conversion_finished that keeps its thread and worker references
handle_conversion_finished_keeps_references(s) ==
    LET s1 == IF s.progress_dialog # "None"
              THEN [close_progress_dialog(s) EXCEPT !.progress_dialog = "None"]
              ELSE s
        s2 == [s1 EXCEPT !.timerQ = Append(@, "finalize")]
    IN  IF s2.conversion_thread # 0 THEN quit(s2, s2.conversion_thread) ELSE s2

handle_conversion_finished(s) ==
    LET s1 == IF s.progress_dialog # "None"
              THEN [close_progress_dialog(s) EXCEPT !.progress_dialog = "None"]
              ELSE s
        s2 == [s1 EXCEPT !.timerQ = Append(@, "finalize")]
        s3 == IF s2.conversion_worker # 0
              THEN [deleteLater(s2, s2.conversion_worker) EXCEPT !.conversion_worker = 0]
              ELSE s2
    IN  IF s3.conversion_thread # 0
        THEN [deleteLater(quit(s3, s3.conversion_thread), s3.conversion_thread)
              EXCEPT !.conversion_thread = 0]
        ELSE s3

finalize_conversion_ui(s) ==
    LET s1 == [s EXCEPT !.is_processing = FALSE]
        s2 == update_action_buttons_state(set_ui_enabled(s1, TRUE))
    IN  IF ShowsProcessing(s2.status_label) THEN reset_status_default(s2) ELSE s2

\* the deferred callback of reset_status
deferred_set_status(s) == set_status(s, s.original_status_text, FALSE, FALSE)

closeEvent(s) ==
    LET s1 == IF s.init_thread # 0 /\ InitRunning(s)
              THEN [s EXCEPT !.initw.exited = TRUE] ELSE s
        s2 == IF s1.conversion_thread # 0 /\ ThreadRunning(s1, s1.conversion_thread)
              THEN quit(IF s1.conversion_worker # 0
                        THEN stop(s1, s1.conversion_worker) ELSE s1,
                        s1.conversion_thread)
              ELSE s1
        s3 == IF s2.progress_dialog # "None" THEN close_progress_dialog(s2) ELSE s2
    IN  [s3 EXCEPT !.closed = TRUE]

\* the file name save_markdown_to_file suggests: the base name of
\* last_processed_file without its extension, with ".md"
default_filename(last_file) ==
    IF last_file = "None" THEN [stem |-> "output", ext |-> "md"]
    ELSE [stem |-> IF last_file = "a.pdf" THEN "a"
                   ELSE IF last_file = "Converting.pdf" THEN "Converting"
                   ELSE last_file,
          ext |-> "md"]

\* save_markdown_to_file with the answer of the save dialog and the outcome
\* of open() / write()
save_markdown_to_file(s, file_path, selected_filter, outcome) ==
    IF s.markdown_output = <<>>
    THEN set_status_temporary(s, St("NothingToSave", ""))
    ELSE IF file_path.stem = "" THEN s
    ELSE IF outcome = "OSError"
    THEN set_status_temporary(show_error(s, "SaveFailed"), St("SaveFailedOS", ""))
    ELSE IF outcome = "Exception"
    THEN set_status_temporary(show_error(s, "SaveFailed"), St("SaveFailed", ""))
    ELSE set_status_temporary(
             [s EXCEPT !.saved_file =
                 [name |-> SavePath(file_path, selected_filter),
                  bytes |-> Encode(TranslateNewlines(s.markdown_output, s.platform)),
                  exists |-> TRUE]],
             St("Saved", SavePath(file_path, selected_filter).stem))

\* the callback of a 3000 ms timer
temporary_status_expired(s) ==
    LET tm == Head(s.tempQ)
        s1 == [s EXCEPT !.tempQ = Tail(@)]
    IN  IF s1.status_label = tm.message THEN reset_status(s1, tm.baseline) ELSE s1

\* dragEnterEvent: whether the drag is accepted; single_local_file is what
\* the tests on the mime data come to
dragEnterEvent(s, single_local_file) ==
    s.DoclingLoaderClass # "None" /\ ~s.is_processing /\ single_local_file

\* dropEvent and open_file_dialog with the path the user chose
dropEvent(s, file_path) ==
    IF ~(s.DoclingLoaderClass # "None" /\ ~s.is_processing) THEN s
    ELSE process_file(s, file_path)

open_file_dialog(s, file_path) ==
    IF s.DoclingLoaderClass = "None" \/ s.is_processing THEN s
    ELSE process_file(s, file_path)

\* ------------------------------------------------ ConversionWorker.run
CancelledError == Exc("RuntimeError", "RuntimeError", TRUE)

\* the error type the except clauses of run() report for exception e
ReportedType(e, is_running) ==
    IF e.base = "RuntimeError"
    THEN IF e.cancelledMsg THEN "Cancelled" ELSE e.name
    ELSE IF ~is_running THEN "Cancelled" ELSE e.name

\* emit_signal: QTimer.singleShot(0, ...) in the worker's thread
emit_signal(wr, m) == [wr EXCEPT !.pend = Append(@, m)]

\* an exception raised inside the try block, by the external library or by a
\* checkpoint: the except clause emits conversion_error and run() returns
Raise(wr, w, e, external) ==
    [emit_signal(wr, ErrorMsg(w, ReportedType(e, wr.running), wr.path))
     EXCEPT !.pc = "returned", !.res = NoDocs, !.raised = external]

\* `if not self._is_running: raise RuntimeError("Operation cancelled ...")`
Checkpoint(wr, w, next) ==
    IF ~wr.running THEN Raise(wr, w, CancelledError, FALSE)
    ELSE [wr EXCEPT !.pc = next]

\* run() without the return after its "cancelled before starting" emission
RunEntryNoReturn(wr, w) ==
    IF ~wr.running
    THEN [emit_signal(wr, ErrorMsg(w, "Cancelled", wr.path)) EXCEPT !.pc = "init"]
    ELSE [wr EXCEPT !.pc = "init"]

\* line 105: cancelled before starting
RunEntry(wr, w) ==
    IF ~wr.running
    THEN [emit_signal(wr, ErrorMsg(w, "Cancelled", wr.path)) EXCEPT !.pc = "returned"]
    ELSE [wr EXCEPT !.pc = "init"]

\* run() without the checkpoint of line 135
AfterLoadUnchecked(wr, w) ==
    [emit_signal(wr, CompleteMsg(w, wr.res, wr.path))
     EXCEPT !.pc = "returned", !.res = NoDocs]

\* line 135 and the success emission
AfterLoad(wr, w) ==
    IF ~wr.running THEN Raise(wr, w, CancelledError, FALSE)
    ELSE [emit_signal(wr, CompleteMsg(w, wr.res, wr.path))
          EXCEPT !.pc = "returned", !.res = NoDocs]

WorkerOthers == UNCHANGED <<appVars, loopVars, initw, histVars>>

RunStart(w) ==
    /\ workers[w].pc = "start"
    /\ workers' = [workers EXCEPT ![w] = RunEntry(@, w)]
    /\ WorkerOthers

CheckDuringInit(w) ==
    /\ workers[w].pc = "init"
    /\ workers' = [workers EXCEPT ![w] = Checkpoint(@, w, "ctor")]
    /\ WorkerOthers

LoaderInit(w) ==
    /\ workers[w].pc = "ctor"
    /\ \E e \in {NoExc} \cup ExternalExceptions :
          workers' = [workers EXCEPT ![w] =
                         IF e = NoExc THEN [@ EXCEPT !.pc = "preload"]
                         ELSE Raise(@, w, e, TRUE)]
    /\ WorkerOthers

CheckBeforeLoad(w) ==
    /\ workers[w].pc = "preload"
    /\ workers' = [workers EXCEPT ![w] = Checkpoint(@, w, "loading")]
    /\ WorkerOthers

LoadReturns(w) ==
    /\ workers[w].pc = "loading"
    /\ \E d \in LoadResults :
          workers' = [workers EXCEPT ![w] = [@ EXCEPT !.pc = "postload", !.res = d]]
    /\ WorkerOthers

LoadRaises(w) ==
    /\ workers[w].pc = "loading"
    /\ \E e \in ExternalExceptions :
          workers' = [workers EXCEPT ![w] = Raise(@, w, e, TRUE)]
    /\ WorkerOthers

CheckAfterLoad(w) ==
    /\ workers[w].pc = "postload"
    /\ workers' = [workers EXCEPT ![w] = AfterLoad(@, w)]
    /\ WorkerOthers

\* QThread.run: exec() after the started signal's slots have returned; it
\* returns at once when quit() was called before
ThreadExec(w) ==
    /\ workers[w].pc = "returned"
    /\ IF workers[w].exited
       THEN /\ workers' = [workers EXCEPT ![w].pc = "finished", ![w].pend = <<>>]
            /\ mainQ' = Append(mainQ, FinishedMsg(w))
       ELSE /\ workers' = [workers EXCEPT ![w].pc = "loop"]
            /\ mainQ' = mainQ
    /\ UNCHANGED <<appVars, notice, closed, frames, timerQ, initTimer, initw, histVars>>

\* a deferred emission that runs the controller's slot in the worker's thread
ThreadTimerCallsSlot(w) ==
    /\ workers[w].pc = "loop"
    /\ workers[w].pend # <<>>
    /\ LET m == Head(workers[w].pend)
           s == [Cur EXCEPT !.workers[w].pend = Tail(@)]
       IN  Commit(IF m.sig = "conversion_complete"
                  THEN handle_conversion_complete(s, m.docs, m.path)
                  ELSE handle_conversion_error(s, m.etype, m.path))
    /\ UNCHANGED <<mainQ, initTimer, histVars>>

\* the thread's event loop fires the deferred emission: the signal is queued
\* to the main thread
ThreadTimer(w) ==
    /\ workers[w].pc = "loop"
    /\ workers[w].pend # <<>>
    /\ mainQ' = Append(mainQ, Head(workers[w].pend))
    /\ workers' = [workers EXCEPT ![w].pend = Tail(@),
                                  ![w].emitted = Append(@, Head(workers[w].pend).etype)]
    /\ UNCHANGED <<appVars, notice, closed, frames, timerQ, initTimer, initw, histVars>>

\* the event loop exits after quit(): QThread.finished is queued
ThreadFinish(w) ==
    /\ workers[w].pc = "loop"
    /\ workers[w].exited
    /\ workers' = [workers EXCEPT ![w].pc = "finished", ![w].pend = <<>>]
    /\ mainQ' = Append(mainQ, FinishedMsg(w))
    /\ UNCHANGED <<appVars, notice, closed, frames, timerQ, initTimer, initw, histVars>>

\* ------------------------------------------------ InitializationWorker.run
InitOthers == UNCHANGED <<appVars, loopVars, workers, histVars>>

\* the message run() defers for the outcome of the import
InitMessage(e) == IF e = NoExc THEN InitCompleteMsg ELSE InitErrorMsg(e.name)

InitRun ==
    /\ initw.pc = "importing"
    /\ \E e \in ImportOutcomes :
          initw' = [initw EXCEPT !.pc = "returned", !.outcome = e,
                                 !.pend = <<InitMessage(e)>>]
    /\ InitOthers

InitExec ==
    /\ initw.pc = "returned"
    /\ IF initw.exited
       THEN /\ initw' = [initw EXCEPT !.pc = "finished", !.pend = <<>>]
            /\ mainQ' = Append(mainQ, InitFinishedMsg)
       ELSE /\ initw' = [initw EXCEPT !.pc = "loop"]
            /\ mainQ' = mainQ
    /\ UNCHANGED <<appVars, notice, closed, frames, timerQ, initTimer, workers, histVars>>

InitTimerEmit ==
    /\ initw.pc = "loop"
    /\ initw.pend # <<>>
    /\ mainQ' = Append(mainQ, Head(initw.pend))
    /\ initw' = [initw EXCEPT !.pend = Tail(@), !.emitted = @ + 1]
    /\ UNCHANGED <<appVars, notice, closed, frames, timerQ, initTimer, workers, histVars>>

InitFinish ==
    /\ initw.pc = "loop"
    /\ initw.exited
    /\ initw' = [initw EXCEPT !.pc = "finished", !.pend = <<>>]
    /\ mainQ' = Append(mainQ, InitFinishedMsg)
    /\ UNCHANGED <<appVars, notice, closed, frames, timerQ, initTimer, workers, histVars>>

\* --------------------------------------------- the main thread's event loop
\* history: the request the controller is working on
NewRequest == [n |-> req.n + 1, cancelAt |-> "none", applied |-> <<>>]
\* history: a terminal signal of worker w reached its slot
CountHandled(s, w) ==
    IF w \in WorkerIds /\ s.workers[w].pc \notin {"none", "deleted"}
    THEN [s EXCEPT !.workers[w].handled = @ + 1] ELSE s
\* history: what a conversion_complete signal carrying docs amounts to
CompleteKind(docs) ==
    IF ~DocsTruthy(docs) THEN "NoDocuments"
    ELSE IF PageContents(docs.blocks) = <<>> THEN "EmptyContent"
    ELSE "complete"
\* history: the outcome the controller applied to the current request
Applied(kind, path) ==
    IF SignalIsCurrent(Cur, path)
    THEN [req EXCEPT !.applied = Append(@, kind)] ELSE req

\* the singleShot(50, start_initialization_thread) of __init__
InitTimerFires ==
    /\ initTimer
    /\ initTimer' = FALSE
    /\ Commit(start_initialization_thread(Cur))
    /\ UNCHANGED <<mainQ, histVars>>

DeliverInitializationComplete ==
    /\ mainQ # <<>> /\ Head(mainQ).sig = "initialization_complete"
    /\ mainQ' = Tail(mainQ)
    /\ Commit(handle_initialization_complete(Cur))
    /\ UNCHANGED <<initTimer, histVars>>

DeliverInitializationError ==
    /\ mainQ # <<>> /\ Head(mainQ).sig = "initialization_error"
    /\ mainQ' = Tail(mainQ)
    /\ Commit(handle_initialization_error(Cur, Head(mainQ).etype))
    /\ UNCHANGED <<initTimer, histVars>>

DeliverInitFinished ==
    /\ mainQ # <<>> /\ Head(mainQ).sig = "init_finished"
    /\ mainQ' = Tail(mainQ)
    /\ Commit(clear_init_thread_references(Cur))
    /\ UNCHANGED <<initTimer, histVars>>

DeliverConversionComplete ==
    /\ mainQ # <<>> /\ Head(mainQ).sig = "conversion_complete"
    /\ LET m == Head(mainQ)
       IN  /\ Commit(handle_conversion_complete(CountHandled(Cur, m.w), m.docs, m.path))
           /\ req' = Applied(CompleteKind(m.docs), m.path)
    /\ mainQ' = Tail(mainQ)
    /\ UNCHANGED <<initTimer, initCalls, injected>>

DeliverConversionError ==
    /\ mainQ # <<>> /\ Head(mainQ).sig = "conversion_error"
    /\ LET m == Head(mainQ)
       IN  /\ Commit(handle_conversion_error(CountHandled(Cur, m.w), m.etype, m.path))
           /\ req' = Applied(m.etype, m.path)
    /\ mainQ' = Tail(mainQ)
    /\ UNCHANGED <<initTimer, initCalls, injected>>

DeliverFinished ==
    /\ mainQ # <<>> /\ Head(mainQ).sig = "finished"
    /\ mainQ' = Tail(mainQ)
    /\ Commit(handle_conversion_finished(Cur))
    /\ UNCHANGED <<initTimer, histVars>>

\* a QTimer.singleShot(0, ...) callback of the main thread
FireSetStatus ==
    /\ timerQ # <<>> /\ Head(timerQ) = "set_status"
    /\ Commit(deferred_set_status([Cur EXCEPT !.timerQ = Tail(@)]))
    /\ UNCHANGED <<mainQ, initTimer, histVars>>

FireFinalize ==
    /\ timerQ # <<>> /\ Head(timerQ) = "finalize"
    /\ Commit(finalize_conversion_ui([Cur EXCEPT !.timerQ = Tail(@)]))
    /\ UNCHANGED <<mainQ, initTimer, histVars>>

\* QApplication.processEvents() returns into process_file
ProcessEventsReturns ==
    /\ frames # <<>>
    /\ Commit(process_file_start_thread(Cur))
    /\ UNCHANGED <<mainQ, initTimer, histVars>>

\* ------------------------------------------------------------- user events
\* the user can make a request: the window is open, and the bounds
UserMayRequest(p) ==
    /\ ~closed
    /\ Len(timerQ) < MaxTimers
    /\ p \in ValidPaths => req.n < MaxConversions

\* a request handled by handler result s
Request(s) ==
    /\ Commit(s)
    /\ req' = IF Len(s.frames) > Len(frames) THEN NewRequest ELSE req
    /\ UNCHANGED <<mainQ, initTimer, initCalls, injected>>

UserDrops(p) == UserMayRequest(p) /\ Request(dropEvent(Cur, p))

UserOpens(p) == UserMayRequest(p) /\ Request(open_file_dialog(Cur, p))

\* the Cancel button of the progress dialog: QProgressDialog.cancel() hides
\* the dialog, then cancel_conversion runs
UserCancels ==
    /\ ~closed
    /\ progress_dialog = "shown"
    /\ Commit(cancel_conversion([Cur EXCEPT !.progress_dialog = "hidden"]))
    /\ req' = [req EXCEPT !.cancelAt =
                  IF req.applied # <<>> THEN "applied"
                  ELSE IF conversion_worker = 0 THEN "noworker"
                  ELSE IF workers[conversion_worker].pc \in BeforeLoadPcs THEN "preload"
                  ELSE IF workers[conversion_worker].pc \in BeforeOutcomePcs THEN "load"
                  ELSE "late"]
    /\ UNCHANGED <<mainQ, initTimer, initCalls, injected>>

UserCloses ==
    /\ ~closed
    /\ Commit(closeEvent(Cur))
    /\ UNCHANGED <<mainQ, initTimer, histVars>>

\* ------------------------------------------------------------ specification
MainLoopDelivers ==
    \/ DeliverInitializationComplete
    \/ DeliverInitializationError
    \/ DeliverConversionComplete
    \/ DeliverConversionError
    \/ DeliverFinished

MainLoopTimers ==
    \/ InitTimerFires
    \/ FireSetStatus
    \/ FireFinalize

WorkerStep(w) ==
    \/ RunStart(w)
    \/ CheckDuringInit(w)
    \/ LoaderInit(w)
    \/ CheckBeforeLoad(w)
    \/ LoadReturns(w)
    \/ LoadRaises(w)
    \/ CheckAfterLoad(w)
    \/ ThreadExec(w)
    \/ ThreadTimer(w)
    \/ ThreadFinish(w)

InitStep ==
    \/ InitRun
    \/ InitExec
    \/ InitTimerEmit

UserEvent ==
    \/ \E p \in Paths : UserDrops(p)
    \/ \E p \in Paths : UserOpens(p)
    \/ UserCancels

\* the program while its window is open
NextOpen ==
    \/ MainLoopDelivers
    \/ MainLoopTimers
    \/ ProcessEventsReturns
    \/ \E w \in WorkerIds : WorkerStep(w)
    \/ InitStep
    \/ UserEvent

\* closing the window, and what only happens after it: nothing else calls
\* quit() on the initialization thread
Closing ==
    \/ UserCloses
    \/ InitFinish
    \/ DeliverInitFinished

Next == NextOpen \/ Closing

Spec == Init /\ [][Next]_vars

\* the program as long as the user does not close the window
SpecOpen == Init /\ [][NextOpen]_vars

\* The event loops keep running and the external calls return: every thread
\* that can take a step eventually takes one.  The user is under no obligation.
Fairness ==
    /\ WF_vars(MainLoopDelivers)
    /\ WF_vars(MainLoopTimers)
    /\ WF_vars(ProcessEventsReturns)
    /\ WF_vars(InitStep)
    /\ \A w \in WorkerIds : WF_vars(WorkerStep(w))

FairSpec == SpecOpen /\ Fairness

\* ---------------------------------------------- methods and slots, called
\* SpecApi adds to the program's own behaviour direct calls of process_file,
\* which the program itself only calls from dropEvent and open_file_dialog.
\* SpecInitApi adds direct calls of start_initialization_thread, which the
\* program itself only calls from one timer.  SpecSignals adds direct calls of
\* the two completion slots, with any argument: the program itself only runs
\* them for the signal of the worker it is tracking.
CallProcessFile(p) == UserMayRequest(p) /\ Request(process_file(Cur, p))

CallStartInitialization ==
    /\ initCalls < MaxInitCalls
    /\ initCalls' = initCalls + 1
    /\ Commit(start_initialization_thread(Cur))
    /\ UNCHANGED <<mainQ, initTimer, req, injected>>

CallConversionComplete(d, p) ==
    /\ injected < MaxInjected
    /\ injected' = injected + 1
    /\ Commit(handle_conversion_complete(Cur, d, p))
    /\ req' = Applied(CompleteKind(d), p)
    /\ UNCHANGED <<mainQ, initTimer, initCalls>>

CallConversionError(e, p) ==
    /\ injected < MaxInjected
    /\ injected' = injected + 1
    /\ Commit(handle_conversion_error(Cur, e, p))
    /\ req' = Applied(e, p)
    /\ UNCHANGED <<mainQ, initTimer, initCalls>>

NextApi ==
    \/ Next
    \/ \E p \in Paths : CallProcessFile(p)

SpecApi == Init /\ [][NextApi]_vars

NextInitApi ==
    \/ Next
    \/ CallStartInitialization

SpecInitApi == Init /\ [][NextInitApi]_vars

NextSignals ==
    \/ NextOpen
    \/ \E p \in ValidPaths : CallConversionComplete(Docs(<<Block(<<"x">>)>>), p)
    \/ \E p \in ValidPaths : \E e \in {"Cancelled", "ValueError"} : CallConversionError(e, p)

SpecSignals == Init /\ [][NextSignals]_vars

\* SpecSave is the Save button after a conversion of a.pdf has ended with
\* text in the output: the text is drawn from Texts, the platform is
\* settled when the first file is written.
InitSave ==
    /\ DoclingLoaderClass = "DL_Class"
    /\ is_processing = FALSE
    /\ last_processed_file = "a.pdf"
    /\ init_thread = 1 /\ init_worker = 1
    /\ conversion_thread = 0 /\ conversion_worker = 0
    /\ progress_dialog = "None"
    /\ markdown_output \in Texts \ {<<>>}
    /\ status_label = StSuccess("a.pdf")
    /\ original_status_text = StSuccess("a.pdf")
    /\ open_enabled = TRUE /\ copy_enabled = HasText(markdown_output)
    /\ central_enabled = TRUE /\ ui_shown = TRUE
    /\ notice = "none" /\ closed = FALSE /\ frames = <<>>
    /\ mainQ = <<>> /\ timerQ = <<>> /\ initTimer = FALSE
    /\ initw = [pc |-> "loop", exited |-> FALSE, pend |-> <<>>, made |-> 1,
                emitted |-> 1, outcome |-> NoExc]
    /\ workers = [w \in WorkerIds |-> IF w = 1 THEN DeletedWorker ELSE NoWorker]
    /\ req = [n |-> 1, cancelAt |-> "none", applied |-> <<"complete">>]
    /\ initCalls = 0 /\ injected = 0
    /\ tempQ = <<>> /\ saved_file = NoFile /\ platform = "unknown"

\* the Save button: enabled, clicked, the dialog answered, the file written
UserSaves(file_path, selected_filter, outcome) ==
    /\ ~closed /\ copy_enabled
    /\ Len(tempQ) + Len(timerQ) < MaxSaves
    /\ \E pf \in {"posix", "windows"} :
          /\ platform \in {"unknown", pf}
          /\ Commit(save_markdown_to_file([Cur EXCEPT !.platform = pf],
                                          file_path, selected_filter, outcome))
    /\ UNCHANGED <<mainQ, initTimer, histVars>>

FireTemporaryReset ==
    /\ tempQ # <<>>
    /\ Commit(temporary_status_expired(Cur))
    /\ UNCHANGED <<mainQ, initTimer, histVars>>

NextSave ==
    \/ \E n \in SaveNames : \E f \in SaveFilters :
          \E o \in {"ok", "OSError", "Exception"} : UserSaves(n, f, o)
    \/ FireTemporaryReset
    \/ FireSetStatus

SpecSave == InitSave /\ [][NextSave]_vars

\* SpecDisplay is the end of a conversion of a.pdf whose load() has returned:
\* the blocks are drawn from DisplayBlocks, at most MaxBlocks of them.
DisplayBlocks ==
    { MissingBlock, Block(<<>>), Block(<<"x">>), Block(<<"y", NL>>),
      Block(<<"<b>", "x">>) }
RECURSIVE BlockSeqs(_)
BlockSeqs(n) ==
    IF n = 0 THEN {<<>>}
    ELSE BlockSeqs(n - 1) \cup
         {Append(bs, b) : bs \in {q \in BlockSeqs(n - 1) : Len(q) = n - 1},
                          b \in DisplayBlocks}
InitDisplay ==
    /\ DoclingLoaderClass = "DL_Class"
    /\ is_processing = TRUE
    /\ last_processed_file = "a.pdf"
    /\ init_thread = 1 /\ init_worker = 1
    /\ conversion_thread = 1 /\ conversion_worker = 1
    /\ progress_dialog = "shown"
    /\ markdown_output = <<>>
    /\ status_label = StPreparing("a.pdf")
    /\ original_status_text = ready_status_text
    /\ open_enabled = FALSE /\ copy_enabled = FALSE
    /\ central_enabled = TRUE /\ ui_shown = TRUE
    /\ notice = "none" /\ closed = FALSE /\ frames = <<>>
    /\ mainQ = <<>> /\ timerQ = <<>> /\ initTimer = FALSE
    /\ initw = [pc |-> "loop", exited |-> FALSE, pend |-> <<>>, made |-> 1,
                emitted |-> 1, outcome |-> NoExc]
    /\ \E bs \in BlockSeqs(MaxBlocks) :
          workers = [w \in WorkerIds |->
                        IF w = 1
                        THEN [NewWorker("a.pdf") EXCEPT !.pc = "postload",
                                                       !.res = Docs(bs)]
                        ELSE NoWorker]
    /\ req = [n |-> 1, cancelAt |-> "none", applied |-> <<>>]
    /\ initCalls = 0 /\ injected = 0
    /\ tempQ = <<>> /\ saved_file = NoFile /\ platform = "unknown"

NextDisplay ==
    \/ CheckAfterLoad(1) \/ ThreadExec(1) \/ ThreadTimer(1) \/ ThreadFinish(1)
    \/ DeliverConversionComplete \/ DeliverFinished
    \/ FireSetStatus \/ FireFinalize

SpecDisplay == InitDisplay /\ [][NextDisplay]_vars

\* ------------------------------------------------------------------ states
\* the controller is Ready: nothing in flight, the interaction surface enabled
Ready ==
    /\ DoclingLoaderClass # "None"
    /\ ~is_processing
    /\ open_enabled
    /\ conversion_thread = 0 /\ conversion_worker = 0
    /\ progress_dialog = "None"
Busy == is_processing
InitializationFailed == DoclingLoaderClass = "None" /\ ~central_enabled

\* ------------------------------------------------------------------ claims
\* C1: once process_file has accepted a request, and as long as the window is
\* not closed, the controller eventually is Ready again: is_processing False,
\* open/drop enabled, the thread, worker and progress dialog references
\* cleared.
C1_BusyLeadsToReady == Busy ~> Ready

\* C1 witness: a request was accepted, its outcome applied, and the
\* controller is Ready again with the window still open.
C1_Witness == req.n >= 1 /\ req.applied # <<>> /\ Ready /\ ~closed

\* the ConversionWorker objects that exist
LiveWorkers == {w \in WorkerIds : workers[w].pc \notin {"none", "deleted"}}
AtMostOneConversion == Cardinality(LiveWorkers) + Len(frames) <= 1
\* a request for path p, through any entry point, made while is_processing
RequestWhileBusy(p) ==
    is_processing /\ (CallProcessFile(p) \/ UserDrops(p) \/ UserOpens(p))

\* C2: at most one ConversionWorker exists in every reachable state, and a
\* request made while is_processing is True, through process_file,
\* open_file_dialog or dropEvent, creates no worker and leaves nothing behind
\* that would run it later: the workers, the pending process_file frame, both
\* queues and the tracked request are unchanged.
C2_OneWorkerBusyRejected ==
    /\ []AtMostOneConversion
    /\ [][\A p \in Paths :
             RequestWhileBusy(p) =>
                 UNCHANGED <<workers, frames, mainQ, timerQ, conversion_thread,
                             conversion_worker, is_processing, last_processed_file,
                             req>>]_vars

\* C2 witness: process_file was called while a conversion was running and
\* answered with the "please wait" message; the one worker is still there.
C2_Witness ==
    /\ is_processing /\ notice = "PleaseWait"
    /\ Cardinality(LiveWorkers) = 1 /\ req.n = 1

\* the terminal signals of worker w
IsTerminal(m) == m.sig \in {"conversion_complete", "conversion_error"}
InQueue(w) ==
    Cardinality({i \in 1..Len(mainQ) : IsTerminal(mainQ[i]) /\ mainQ[i].w = w})
\* the kinds of the terminal signals worker w has deferred or emitted
\* ("" is conversion_complete)
OutcomeKinds(w) ==
    {workers[w].emitted[i] : i \in 1..Len(workers[w].emitted)}
        \cup {workers[w].pend[i].etype : i \in 1..Len(workers[w].pend)}

InitReady == DoclingLoaderClass # "None" /\ ui_shown /\ central_enabled
InitSignalQueued ==
    \E i \in 1..Len(mainQ) :
        mainQ[i].sig \in {"initialization_complete", "initialization_error"}

\* C4 as stated: once the initialization thread has finished and the main
\* thread has nothing left to handle, one signal was emitted and the
\* application is in Ready or in InitializationFailed.
C4_ExactlyOneInitOutcome ==
    (initw.pc = "finished" /\ mainQ = <<>>) =>
        (initw.emitted = 1 /\ (InitReady \/ InitializationFailed))

\* C4: the initialization worker emits at most one signal; the application is
\* never in both Ready and InitializationFailed; once the signal was handled
\* it is in Ready when the import succeeded and in InitializationFailed when
\* it raised, and in neither before; a finished initialization thread emitted
\* nothing only if the window was closed.
C4_OneInitOutcomeUnlessClosed ==
    /\ initw.emitted <= 1
    /\ ~(InitReady /\ InitializationFailed)
    /\ (initw.emitted = 1 /\ ~InitSignalQueued) =>
          IF initw.outcome = NoExc
          THEN InitReady /\ ~InitializationFailed
          ELSE InitializationFailed /\ ~InitReady
    /\ (initw.emitted = 0 \/ InitSignalQueued) =>
          (~InitReady /\ ~InitializationFailed)
    /\ (initw.pc = "finished" /\ initw.emitted = 0) => closed

\* C4 witness: the import raised an exception that is no ImportError, the
\* error signal was handled, the application is in InitializationFailed.
C4_Witness ==
    /\ initw.emitted = 1 /\ ~InitSignalQueued
    /\ initw.outcome.name = "ValueError" /\ InitializationFailed

\* C5: at most one InitializationWorker is created, however often and
\* whenever start_initialization_thread is invoked.
C5_AtMostOneInitializationWorker == initw.made <= 1

\* C6: when Cancel is clicked after the request was accepted and before
\* loader.load() is called (the worker not yet created, or anywhere before
\* its second checkpoint), every outcome the controller applies to that
\* request is Cancelled.
C6_CancelBeforeLoadYieldsCancelled ==
    req.cancelAt \in {"noworker", "preload"} =>
        \A i \in 1..Len(req.applied) : req.applied[i] = "Cancelled"

C8_CancelledBeforeExternalError ==
    \A w \in LiveWorkers :
        (workers[w].raised /\ workers[w].stopAt = "pre") =>
            OutcomeKinds(w) \subseteq {"Cancelled"}

\* C9: when Cancel was clicked before the controller handled the outcome of
\* the request, then once the request is over (is_processing False, no
\* deferred callback left, the window open) the controller is Ready, the
\* status shows Cancelled, the output is empty and copy/save are disabled.
C9_CancelledRequestEndsCancelled ==
    (/\ req.cancelAt \in {"noworker", "preload", "load", "late"}
     /\ ~is_processing /\ timerQ = <<>> /\ ~closed) =>
        (/\ Ready
         /\ status_label = StCancelled
         /\ markdown_output = <<>>
         /\ ~copy_enabled)

\* C10: a completion or error signal that is not the tracked worker's own
\* leaves the output, the status, is_processing, last_processed_file, the
\* workers and their threads, the deferred callbacks and the applied outcomes
\* unchanged.
C10_StaleSignalChangesNothing ==
    [][injected' # injected =>
          UNCHANGED <<markdown_output, status_label, original_status_text,
                      is_processing, last_processed_file, copy_enabled,
                      workers, timerQ, notice, req>>]_vars

\* the step in which _finalize_conversion_ui ends a request
RequestEnds == is_processing /\ ~is_processing'
\* the step in which a completion handler applies an outcome of kind k
Applies(k) ==
    /\ Len(req'.applied) = Len(req.applied) + 1
    /\ req'.applied[Len(req'.applied)] = k

\* C11: a request for a readable file that was not cancelled and whose
\* conversion produced text ends with the controller Ready, the success
\* message of that file as the status (shown and kept as the baseline) and
\* copy/save enabled.
C11_SuccessEndsReadyEnabled ==
    [][(/\ RequestEnds /\ ~closed
        /\ req.applied = <<"complete">> /\ req.cancelAt = "none"
        /\ HasText(markdown_output)) =>
           (/\ Ready'
            /\ status_label' = StSuccess(last_processed_file)
            /\ original_status_text' = StSuccess(last_processed_file)
            /\ copy_enabled')]_vars

EmptyKinds == {"NoDocuments", "EmptyContent"}

\* C12: when load() returned nothing, no blocks, or only blocks whose content
\* is empty or missing, the completion handler shows the matching error
\* notification and leaves the output empty and copy/save disabled; the
\* request then ends with the controller Ready, the output still empty and
\* copy/save still disabled.
C12_EmptyResultIsFailure ==
    [][/\ \A k \in EmptyKinds :
             Applies(k) =>
                 (notice' = k /\ markdown_output' = <<>> /\ ~copy_enabled'
                  /\ original_status_text'.k = "Failed")
       /\ (RequestEnds /\ req.applied # <<>> /\ req.applied[1] \in EmptyKinds) =>
             (Ready' /\ markdown_output' = <<>> /\ ~copy_enabled')]_vars

\* C12 witness: load() returned blocks without content; the notification is
\* up, the request is over, the controller is Ready with an empty output.
C12_Witness ==
    /\ req.applied = <<"EmptyContent">> /\ notice = "EmptyContent"
    /\ Ready /\ markdown_output = <<>> /\ ~copy_enabled /\ ~closed

\* a request for path p through any of the three entry points
RequestFor(p) == CallProcessFile(p) \/ UserDrops(p) \/ UserOpens(p)
\* the notification of the failing pre-flight check
PreflightNotice(p) == IF ~PathExists(p) THEN "FileNotFound" ELSE "PermissionDenied"

\* C13: a request made in Ready for a path that does not exist or cannot be
\* read shows the FileNotFound / PermissionDenied notification in the same
\* step, creates no worker and no pending process_file frame, queues no
\* signal, leaves is_processing False and the controller Ready.
C13_PreflightFailsSynchronously ==
    [][\A p \in Paths \ ValidPaths :
          (Ready /\ RequestFor(p)) =>
              (/\ notice' = PreflightNotice(p)
               /\ Ready'
               /\ UNCHANGED <<workers, frames, mainQ, conversion_thread,
                               conversion_worker, is_processing, req>>)]_vars

\* C13 witness: a missing file was requested in Ready before any conversion;
\* the notification is up, there is no worker, the controller is Ready.
C13_Witness ==
    /\ notice = "FileNotFound" /\ Ready /\ Created(Cur) = 0 /\ frames = <<>>
    /\ original_status_text = St("FileAccessError", "")

\* C14: while a conversion is in flight, a request through dropEvent,
\* open_file_dialog or process_file, for any path, ends with the "please
\* wait" notification shown.
C14_BusyRequestGetsPleaseWait ==
    (is_processing /\ ~closed) =>
        \A p \in Paths :
            /\ process_file(Cur, p).notice = "PleaseWait"
            /\ open_file_dialog(Cur, p).notice = "PleaseWait"
            /\ dropEvent(Cur, p).notice = "PleaseWait"

WorkerImpliesInitialized ==
    (LiveWorkers # {} \/ frames # <<>>) =>
        (DoclingLoaderClass # "None" /\ is_processing)

\* C15: whenever a ConversionWorker exists, or process_file is about to
\* create one, DoclingLoaderClass is set and the conversion is the one in
\* flight; and a request is accepted only in Ready.
C15_WorkerOnlyWhenInitialized ==
    /\ []WorkerImpliesInitialized
    /\ [][Len(frames') > Len(frames) => Ready]_vars

\* C15 witness: process_file was called before initialization ended and
\* answered "not fully initialized"; later, initialized, a worker exists.
C15_Witness ==
    /\ notice = "NotInitialized" /\ LiveWorkers # {}
    /\ DoclingLoaderClass # "None"

\* the initialization_error signal has reached its slot
InitErrorHandled ==
    initw.emitted = 1 /\ initw.outcome # NoExc /\ ~InitSignalQueued

\* C16: once the initialization error has been handled, the application is
\* and stays in InitializationFailed: DoclingLoaderClass None, the central
\* widget disabled, never Ready or Busy, no conversion worker, no second
\* initialization worker; a drop, an open request, a call of process_file
\* and a cancel leave the state as it is, and so does a further call of
\* start_initialization_thread while the window is open.
C16_InitializationFailedIsPermanent ==
    InitErrorHandled =>
        /\ InitializationFailed /\ ~Ready /\ ~Busy
        /\ LiveWorkers = {} /\ frames = <<>> /\ initw.made = 1
        /\ \A p \in Paths :
              /\ dropEvent(Cur, p) = Cur
              /\ open_file_dialog(Cur, p) = Cur
              /\ process_file(Cur, p) = Cur
        /\ cancel_conversion(Cur) = Cur
        /\ ~closed => start_initialization_thread(Cur) = Cur

\* C16 witness: the import raised ModuleNotFoundError, the error was handled,
\* and every timer and queued signal has run since.
C16_Witness ==
    /\ InitErrorHandled /\ initw.outcome.name = "ModuleNotFoundError"
    /\ InitializationFailed /\ ~initTimer /\ timerQ = <<>> /\ mainQ = <<>>

ErrorNotices == {"OSFailure", "MissingDependency", "Unexpected"} \cup EmptyKinds

\* C17: the step in which a completion handler applies an outcome other than
\* Cancelled and success ends with an error notification shown; the step in
\* which it applies Cancelled leaves the notification area as it was and
\* sets the Cancelled status as the baseline.
C17_ErrorsNotifyCancelledDoesNot ==
    [][/\ Applies("Cancelled") =>
             (notice' = notice /\ original_status_text' = StCancelled)
       /\ \A k \in (EmptyKinds \cup {e.name : e \in ExternalExceptions}) :
             Applies(k) => notice' \in ErrorNotices]_vars

\* C17 witness: a first request failed with an OS error and its notification
\* was shown; the second was cancelled and the notification area still
\* shows the first one.
C17_Witness ==
    /\ req.n = 2 /\ req.applied = <<"Cancelled">>
    /\ notice = "OSFailure" /\ original_status_text = StCancelled

\* the user-facing category of an exception family
FamilyNotice(base) ==
    IF base = "OSError" THEN "OSFailure"
    ELSE IF base = "ImportError" THEN "MissingDependency"
    ELSE "Unexpected"

\* C18: the step in which the controller applies the error of an exception
\* raised by the external operation shows the category of the exception's
\* family: OS failure for OSError and its subclasses, Missing Dependency for
\* ImportError and its subclasses, Unexpected for everything else.
C18_ErrorCategoryByFamily ==
    [][\A e \in ExternalExceptions :
          Applies(e.name) => notice' = FamilyNotice(e.base)]_vars

\* C19: once the initialization error has been handled, the message shown
\* carries the install hint when the import raised an exception of the
\* ImportError family, and the "see console" text for any other exception.
C19_InitErrorClassifiedByFamily ==
    InitErrorHandled =>
        notice = IF initw.outcome.base = "ImportError"
                 THEN "InitErrorInstallHint" ELSE "InitErrorSeeConsole"

\* C20: DoclingLoaderClass changes only in the step that handles
\* initialization_complete, from None to the imported class, and never
\* afterwards.
C20_LoaderClassAssignedOnce ==
    [][DoclingLoaderClass' # DoclingLoaderClass =>
          (/\ DoclingLoaderClass = "None" /\ DoclingLoaderClass' = "DL_Class"
           /\ mainQ # <<>> /\ Head(mainQ).sig = "initialization_complete")]_vars

\* C20 witness: two requests later, one of them failed, the window closed and
\* the initialization thread's references cleared, the class is still there.
C20_Witness ==
    /\ DoclingLoaderClass = "DL_Class" /\ closed /\ init_thread = 0
    /\ req.n = 2 /\ notice \in ErrorNotices

\* C21: the step in which the window is closed clears the flag of every
\* conversion worker whose thread is running and tells that thread to quit;
\* the close is accepted in that same step, with the worker where it was.
C21_CloseRequestsCancellation ==
    [][(~closed /\ closed') =>
          \A w \in WorkerIds :
              ThreadRunning(Cur, w) =>
                  (/\ ~workers'[w].running /\ workers'[w].exited
                   /\ workers'[w].pc = workers[w].pc)]_vars

\* C21 witness: the window was closed while loader.load() was executing and
\* nobody had clicked Cancel; the close was accepted, the flag is cleared and
\* load() has not returned yet.
C21_Witness ==
    /\ closed /\ req.cancelAt = "none"
    /\ \E w \in WorkerIds :
          /\ workers[w].pc = "loading"
          /\ ~workers[w].running /\ workers[w].stopAt = "pre"

\* C22: once the window is closed no step sets DoclingLoaderClass, shows the
\* main UI or applies the error UI (the central widget's enabled state and
\* the main UI's visibility stay as they are).
C22_ClosedInitOutcomeChangesNothing ==
    [][closed => UNCHANGED <<DoclingLoaderClass, ui_shown, central_enabled>>]_vars

\* run() of worker w has deferred its terminal signal
OutcomeProduced(w) == workers[w].pc \in {"returned", "loop", "finished"}
\* state s without what stop() writes and without the look of the dialog
SansCancelFlag(s) ==
    [s EXCEPT !.progress_dialog = IF @ = "None" THEN "None" ELSE "dialog",
              !.workers = [w \in WorkerIds |->
                              [s.workers[w] EXCEPT !.running = TRUE,
                                                   !.stopAt = "never"]]]
LateCancelIsNoOp ==
    /\ (\A w \in LiveWorkers : OutcomeProduced(w)) =>
          SansCancelFlag(cancel_conversion(Cur)) = SansCancelFlag(Cur)
    /\ cancel_conversion(cancel_conversion(Cur)) = cancel_conversion(Cur)

\* C23: when no conversion worker exists or the worker has already deferred
\* its terminal signal, cancel_conversion changes nothing but the worker's
\* flag and the look of the progress dialog: the output, the status, the
\* baseline, is_processing, the references, the notification, the deferred
\* callbacks and the worker's pending signal are as before; in every state a
\* second cancel_conversion changes nothing the first did not; and once a
\* worker has deferred its signal no step changes the kind of that signal.
C23_LateCancelIsNoOp ==
    /\ []LateCancelIsNoOp
    /\ [][\A w \in WorkerIds :
             (OutcomeProduced(w) /\ workers'[w].pc # "deleted") =>
                 OutcomeKinds(w)' \subseteq OutcomeKinds(w)]_vars

\* C23 witness: Cancel was clicked after run() had deferred
\* conversion_complete; the request ended with the text in the output and
\* the success status.
C23_Witness ==
    /\ req.cancelAt = "late" /\ req.applied = <<"complete">>
    /\ Ready /\ ~closed /\ HasText(markdown_output)
    /\ status_label = StSuccess("a.pdf")

\* the workers as they are but for what stop() writes
SameButFlag(ws, w) ==
    [ws EXCEPT ![w].running = workers[w].running, ![w].stopAt = workers[w].stopAt]

\* C24: the step in which the user clicks Cancel while is_processing is True
\* clears the flag of the tracked worker and changes nothing else of the
\* controller: is_processing stays True, open/drop stay disabled, the thread
\* and worker references, the output, last_processed_file, the status, the
\* notification, both queues and every other field of the workers are as
\* before; and is_processing becomes False only when no worker is left.
C24_CancelOnlySetsFlag ==
    [][/\ (is_processing /\ UserCancels) =>
             /\ is_processing' /\ ~open_enabled' /\ ~copy_enabled'
             /\ UNCHANGED <<is_processing, open_enabled, copy_enabled,
                             conversion_thread, conversion_worker,
                             markdown_output, last_processed_file, status_label,
                             original_status_text, notice, mainQ, timerQ, frames>>
             /\ IF conversion_worker = 0 THEN workers' = workers
                ELSE /\ ~workers'[conversion_worker].running
                     /\ SameButFlag(workers', conversion_worker) = workers
       /\ RequestEnds => LiveWorkers = {}]_vars

\* C24 witness: Cancel was clicked while loader.load() was executing; the
\* flag is cleared, load() has not returned, the controller is still Busy
\* with both references in place.
C24_Witness ==
    /\ req.cancelAt = "load" /\ is_processing /\ ~open_enabled /\ ~closed
    /\ conversion_worker # 0 /\ conversion_thread = conversion_worker
    /\ workers[conversion_worker].pc = "loading"
    /\ ~workers[conversion_worker].running

\* C25: whenever save_markdown_to_file has written a file, the bytes of the
\* file are the UTF-8 encoding of the text the output shows, and decoding
\* them as UTF-8 gives that text back.
C25_SaveRoundTrip ==
    saved_file.exists =>
        /\ saved_file.bytes = Encode(markdown_output)
        /\ Decode(saved_file.bytes) = markdown_output

\* C26: a step of InitializationWorker.run, of ConversionWorker.run or of
\* their threads' event loops leaves every attribute of the controller, the
\* notification, the deferred callbacks and the pending process_file frame
\* unchanged and at most appends signals to the main thread's queue; and
\* of a worker that exists, the steps of the main thread write only the
\* flag (and, through QThread.quit(), the thread's exit request): where
\* run() is, its path, its result and its deferred and emitted signals
\* change only in the worker's own steps, until the worker is deleted.
C26_BackgroundWritesNoControllerState ==
    [][/\ ((\E w \in WorkerIds : WorkerStep(w)) \/ InitStep \/ InitFinish) =>
             /\ UNCHANGED <<appVars, notice, closed, frames, timerQ, initTimer>>
             /\ Len(mainQ') >= Len(mainQ)
             /\ SubSeq(mainQ', 1, Len(mainQ)) = mainQ
       /\ \A w \in WorkerIds :
             (/\ workers[w].pc # "none" /\ workers'[w].pc # "deleted"
              /\ [workers'[w] EXCEPT !.running = workers[w].running,
                                     !.exited = workers[w].exited,
                                     !.stopAt = workers[w].stopAt,
                                     !.handled = workers[w].handled] # workers[w])
                 => WorkerStep(w)
       /\ (initw.pc # "none" /\ initw'.made = initw.made
           /\ [initw' EXCEPT !.exited = initw.exited] # initw)
              => (InitStep \/ InitFinish)]_vars

\* C26 witness: run() returned a document and its signal is queued to the
\* main thread; the controller still shows the request as it accepted it,
\* and the flag was cleared by a Cancel click after run() had read it last.
C26_Witness ==
    \E w \in WorkerIds :
        /\ workers[w].emitted = <<"">> /\ InQueue(w) = 1
        /\ ~workers[w].running /\ workers[w].stopAt = "post"
        /\ is_processing /\ markdown_output = <<>>
        /\ status_label = StPreparing(workers[w].path)

\* C27: while process_file is between setting is_processing and starting
\* the worker, the main thread runs no other handler: no step that leaves
\* the process_file frame pending changes an attribute of the controller,
\* the notification, the window, or takes a deferred callback or a queued
\* signal.
C27_ProcessFileIsAtomic ==
    [][(frames # <<>> /\ frames' = frames) =>
          /\ UNCHANGED <<appVars, notice, closed, timerQ, initTimer>>
          /\ Len(mainQ') >= Len(mainQ)]_vars

\* the step in which handle_conversion_finished runs
FinishedHandled ==
    mainQ # <<>> /\ Head(mainQ).sig = "finished" /\ mainQ' = Tail(mainQ)
\* no terminal signal is deferred in a worker's thread or queued to the main
\* thread
NoOutcomeInFlight ==
    \A w \in LiveWorkers : workers[w].pend = <<>> /\ InQueue(w) = 0

\* C28 as stated: handle_conversion_finished runs, and is_processing becomes
\* False, only after a completion handler has applied the outcome of the
\* request, and is_processing becomes False with no outcome in flight.
C28_FinishAfterOutcome ==
    [][/\ (FinishedHandled \/ RequestEnds) => req.applied # <<>>
       /\ RequestEnds => NoOutcomeInFlight]_vars

\* C28: as long as the window has not been closed, handle_conversion_finished
\* runs, and is_processing becomes False, only after a completion handler has
\* applied the outcome of the request; is_processing never becomes False
\* with an outcome in flight.
C28_FinishAfterOutcomeUnlessClosed ==
    [][/\ (~closed /\ (FinishedHandled \/ RequestEnds)) => req.applied # <<>>
       /\ RequestEnds => NoOutcomeInFlight]_vars

\* C28 witness: the second request failed with an unexpected error; the
\* error was applied, the thread's end handled and the UI finalized, with
\* the window open.
C28_Witness ==
    /\ req.n = 2 /\ req.applied = <<"ValueError">>
    /\ Ready /\ ~closed /\ timerQ = <<>> /\ mainQ = <<>>

\* C29: in every reachable state copy and save are enabled exactly when the
\* output holds a character that is not white space, is_processing is
\* False and DoclingLoaderClass is set; so they are disabled whenever
\* is_processing is True, and enabled whenever the controller is Ready with
\* such a text in the output.
C29_CopySaveEnabledIffCanInteract ==
    /\ copy_enabled <=>
          (HasText(markdown_output) /\ ~is_processing /\ DoclingLoaderClass # "None")
    /\ is_processing => ~copy_enabled
    /\ (Ready /\ HasText(markdown_output)) => copy_enabled

\* C29 witness: the completion handler has written the text into the output
\* and the UI is not finalized yet: copy and save are still disabled.
C29_Witness ==
    /\ is_processing /\ HasText(markdown_output) /\ ~copy_enabled
    /\ req.applied = <<"complete">> /\ ~closed

\* C30: in every reachable state, is_processing True, a worker that exists
\* or a pending process_file frame implies that the open button and the
\* drop area are disabled; DoclingLoaderClass set and is_processing False
\* imply that they are enabled; dragEnterEvent accepts a drag, and dropEvent and
\* open_file_dialog act on a path, only when DoclingLoaderClass is set and
\* is_processing is False.
C30_OpenDropDisabledWhileBusy ==
    /\ (is_processing \/ LiveWorkers # {} \/ frames # <<>>) => ~open_enabled
    /\ (DoclingLoaderClass # "None" /\ ~is_processing) => open_enabled
    /\ \A b \in BOOLEAN :
          dragEnterEvent(Cur, b) => (DoclingLoaderClass # "None" /\ ~is_processing)
    /\ \A p \in Paths :
          (dropEvent(Cur, p) # Cur \/ open_file_dialog(Cur, p) # Cur) =>
              (DoclingLoaderClass # "None" /\ ~is_processing)

\* C30 witness: the second request is in flight, load() has returned; open
\* and drop, enabled between the two requests, are disabled again and a drag
\* of a single local file is refused.
C30_Witness ==
    /\ req.n = 2 /\ is_processing /\ ~open_enabled /\ ~closed
    /\ conversion_worker # 0 /\ workers[conversion_worker].pc = "postload"
    /\ ~dragEnterEvent(Cur, TRUE) /\ dropEvent(Cur, "a.pdf") = Cur

\* the contents the blocks carry, in their order, those that are missing or
\* empty left out
KeptContents(bs) ==
    LET kept == SelectSeq(bs, LAMBDA b : b.present /\ b.text # <<>>)
    IN  [i \in 1..Len(kept) |-> kept[i].text]
\* texts joined by a blank line
RECURSIVE BlankLineJoined(_)
BlankLineJoined(ts) ==
    IF ts = <<>> THEN <<>>
    ELSE LET n == Len(ts)
         IN  BlankLineJoined(SubSeq(ts, 1, n - 1))
                 \o (IF n > 1 THEN <<NL, NL>> ELSE <<>>) \o ts[n]

\* C31: when handle_conversion_complete applies a success, the text the
\* output then shows is the contents of the returned blocks, in their order,
\* joined by two newlines, the missing and the empty ones left out.
C31_DisplayedTextIsJoinedBlocks ==
    [][Applies("complete") =>
          markdown_output' = BlankLineJoined(KeptContents(Head(mainQ).docs.blocks))]_vars

\* a conversion has ended and every deferred callback has run
ConversionSettled ==
    /\ req.n > 0 /\ ~is_processing /\ frames = <<>> /\ timerQ = <<>>
\* the final message of the outcome the controller applied to the request
OutcomeMessage ==
    IF req.applied = <<>> THEN ready_status_text
    ELSE LET k == req.applied[Len(req.applied)]
         IN  IF k = "complete" THEN StSuccess(last_processed_file)
             ELSE IF k = "EmptyContent" THEN St("Failed", "Empty result")
             ELSE IF k = "NoDocuments" THEN St("Failed", "No documents")
             ELSE ErrorStatus(k)
\* no request has been rejected by a pre-check since
NoRejectionSince ==
    original_status_text \notin {St("FileAccessError", ""), St("FilePermissionError", "")}

\* C32: once a conversion has ended and every deferred callback has run, the
\* status label shows no processing-state message: it shows the final
\* message of the outcome applied to the request (success, failure or
\* cancelled) or, when no outcome was applied, the ready text.
C32_StatusShowsOutcomeMessage ==
    (ConversionSettled /\ NoRejectionSince) =>
        (/\ ~ShowsProcessing(status_label)
         /\ status_label = OutcomeMessage)

\* the initialization outcome, success or failure, has reached its slot
InitOutcomeHandled == initw.emitted = 1 /\ ~InitSignalQueued

\* C33: after the initialization outcome has been handled, and without the
\* window being closed, the initialization thread eventually finishes and
\* init_thread and init_worker become None.
C33_InitThreadEndsAfterStartup ==
    InitOutcomeHandled ~>
        (initw.pc = "finished" /\ init_thread = 0 /\ init_worker = 0)

\* the step in which the output comes to show a new text
OutputSet == markdown_output' # markdown_output /\ markdown_output' # <<>>
\* the step in which handle_conversion_complete handles the signal m
CompleteHandled(m) ==
    /\ mainQ # <<>> /\ Head(mainQ) = m /\ mainQ' = Tail(mainQ)
    /\ m.sig = "conversion_complete"

\* C34: the output comes to show a text only when a conversion result of
\* last_processed_file is applied, and then the suggested save name is that
\* file's; accepting a request, and any change of last_processed_file,
\* empties the output; it is empty when the worker is created, and after a
\* conversion that ended without a success applied.
C34_OutputBelongsToLastFile ==
    [][/\ OutputSet =>
              \E m \in {Head(mainQ \o <<InitFinishedMsg>>)} :
                 /\ CompleteHandled(m)
                 /\ m.path = last_processed_file'
                 /\ last_processed_file' = last_processed_file
                 /\ markdown_output' = setText(JoinBlocks(PageContents(m.docs.blocks)))
                 /\ default_filename(last_processed_file') = default_filename(m.path)
       /\ req'.n > req.n => markdown_output' = <<>>
       /\ last_processed_file' # last_processed_file => markdown_output' = <<>>
       /\ Len(frames') < Len(frames) => markdown_output = <<>>
       /\ (RequestEnds /\ req.applied # <<>>
              /\ \A i \in 1..Len(req.applied) : req.applied[i] # "complete")
             => markdown_output' = <<>>]_vars

\* the second accepted request has ended with text in the output
C34_Witness ==
    /\ req.n = 2 /\ ConversionSettled
    /\ markdown_output # <<>>
    /\ default_filename(last_processed_file).stem = "a"

\* nothing of a conversion is left when is_processing is False
NoLeftoverWhenIdle ==
    ~is_processing =>
        (conversion_thread = 0 /\ conversion_worker = 0 /\ progress_dialog = "None")

\* C35: in every reachable state is_processing = False implies that
\* conversion_thread, conversion_worker and progress_dialog are None; when
\* process_file accepts a request there is no progress dialog to close, and
\* when it goes on after processEvents() there is no thread to quit and to
\* wait for.
C35_IdleHasNoLeftovers ==
    /\ []NoLeftoverWhenIdle
    /\ [][/\ req'.n > req.n => progress_dialog = "None"
          /\ Len(frames') < Len(frames) => conversion_thread = 0]_vars

\* process_file goes on after processEvents() for the second request
C35_Witness ==
    /\ req.n = 2 /\ frames = <<"a.pdf">>
    /\ conversion_thread = 0 /\ progress_dialog = "shown"

\* process_file(file_path) returns at one of its pre-checks
Rejected(s, file_path) ==
    \/ NotInitialized(s) \/ AlreadyProcessing(s)
    \/ ~PathExists(file_path) \/ ~PathReadable(file_path)
\* state s with the status text, its baseline and deferred update, and the
\* notification of state r
SansStatusAndNotice(s, r) ==
    [s EXCEPT !.status_label = r.status_label,
              !.original_status_text = r.original_status_text,
              !.timerQ = r.timerQ, !.notice = r.notice]

\* C36: a call of process_file that one of the pre-checks rejects leaves
\* is_processing, last_processed_file, the output, the copy/save enabled
\* state and the thread and worker references as they are: nothing but the
\* status text and the notification changes.
C36_RejectedRequestChangesNothing ==
    \A p \in Paths :
       Rejected(Cur, p) =>
          LET s == process_file(Cur, p)
          IN  /\ s.is_processing = is_processing
              /\ s.last_processed_file = last_processed_file
              /\ s.markdown_output = markdown_output
              /\ s.copy_enabled = copy_enabled
              /\ s.conversion_thread = conversion_thread
              /\ s.conversion_worker = conversion_worker
              /\ s.workers = workers
              /\ SansStatusAndNotice(s, Cur) = Cur

\* a request for a missing file has been rejected while the output showed
\* the text of a.pdf
C36_Witness ==
    /\ notice = "FileNotFound" /\ original_status_text = St("FileAccessError", "")
    /\ last_processed_file = "a.pdf" /\ HasText(markdown_output) /\ copy_enabled
    /\ ~is_processing

\* C37: a worker defers or emits the outcome Cancelled only if stop() was
\* called on it before run() produced the outcome; a worker that was never
\* stopped reports success or the error the external operation raised.
C37_CancelledOnlyIfStopped ==
    \A w \in LiveWorkers :
        "Cancelled" \in OutcomeKinds(w) => workers[w].stopAt = "pre"

====
